---------------------------- MODULE Spec2Model ----------------------------
(***************************************************************************)
(* A model of sort_seqs_by_clade.py: retrieve_clade_seqs reads a tree, a   *)
(* list of reference names and a FASTA collection, roots the tree, finds   *)
(* for every reference the node with the most leaves that holds the        *)
(* reference and no other reference, and writes one FASTA file per         *)
(* reference into a fresh output directory.                                *)
(*                                                                         *)
(* Names are sequences of one-character strings, so that the file-name     *)
(* substitution of lines 165-166 is computed character by character.       *)
(* A tree node is a record [name, children]; a node of a tree is addressed *)
(* by its path, the sequence of child indices leading to it from the root. *)
(* The ete3 operations the script calls (traverse, get_leaves,             *)
(* search_nodes, set_outgroup, copy) are modelled at their call sites.     *)
(***************************************************************************)
EXTENDS Naturals, Sequences, FiniteSets

VARIABLES pc, error, t1, t2, ref_seq_list, ts_num, first_ref_seq_node_name,
          t3, node_w_most_leaves, seq_names_by_ref_seq_name,
          all_seqs, out_dir, dir_before, write_idx

vars == <<pc, error, t1, t2, ref_seq_list, ts_num, first_ref_seq_node_name,
          t3, node_w_most_leaves, seq_names_by_ref_seq_name,
          all_seqs, out_dir, dir_before, write_idx>>

\* ------------------------------------------------------------- bounds

\* Largest number of leaves of an enumerated input tree.
MaxLeaves == 4

\* Reference lists have MinRefs - 1 .. MinRefs + ExtraRefs lines.
ExtraRefs == 0

\* ---------------------------------------------------------- constants

\* Line 51: assert len(ref_seq_list) >= 3.
MinRefs == 3

\* The name ete3 gives a node the newick text does not name (every
\* internal node under format 0, and the root).
DEFAULT_NAME == <<>>

\* Line 133: node_w_most_leaves.name = 'X'.
SentinelName == <<"X">>

\* Line 167: '__clade.faa'.
CladeSuffix == <<"_", "_", "c", "l", "a", "d", "e", ".", "f", "a", "a">>

\* first_ref_seq_node_name = None (line 69).
None == <<"None">>

\* ------------------------------------------------------ sequence helpers

Range(s) == {s[i] : i \in DOMAIN s}

RemoveAt(s, i) == [j \in 1..(Len(s) - 1) |-> IF j < i THEN s[j] ELSE s[j + 1]]

RECURSIVE Flatten(_)
Flatten(ss) == IF ss = <<>> THEN <<>> ELSE Head(ss) \o Flatten(Tail(ss))

IsInjective(s) == \A i, j \in DOMAIN s : s[i] = s[j] => i = j

\* ----------------------------------------------------------- tree model

Leaf(n) == [name |-> n, children |-> <<>>]

Node(n, ch) == [name |-> n, children |-> ch]

\* TreeNode.is_leaf
IsLeaf(node) == Len(node.children) = 0

\* The node of tree t at path p.
RECURSIVE Subtree(_, _)
Subtree(t, p) == IF p = <<>> THEN t ELSE Subtree(t.children[Head(p)], Tail(p))

\* [x.name for x in node.get_leaves()]: get_leaves walks the subtree in
\* preorder and keeps the nodes without children.
RECURSIVE LeafNames(_)
LeafNames(node) ==
    IF IsLeaf(node) THEN <<node.name>>
    ELSE Flatten([i \in DOMAIN node.children |-> LeafNames(node.children[i])])

\* node.traverse(): ete3's default strategy is level order, a queue that
\* starts with the node and is extended by the children of each node popped.
RECURSIVE LevelOrderFrom(_, _)
LevelOrderFrom(t, queue) ==
    IF queue = <<>> THEN <<>>
    ELSE LET p  == Head(queue)
             nd == Subtree(t, p)
         IN  <<p>> \o LevelOrderFrom(t, Tail(queue) \o
                         [i \in DOMAIN nd.children |-> p \o <<i>>])

Traverse(t) == LevelOrderFrom(t, << <<>> >>)

\* node.search_nodes(name=n) is not empty: some node of the subtree, leaf
\* or internal, has the name n (the script only tests the list returned).
RECURSIVE SearchNodes(_, _)
SearchNodes(node, n) ==
    \/ node.name = n
    \/ \E i \in DOMAIN node.children : SearchNodes(node.children[i], n)

\* The tree t with the node at path p renamed to n (node.name = n).
RECURSIVE Rename(_, _, _)
Rename(t, p, n) ==
    IF p = <<>> THEN [t EXCEPT !.name = n]
    ELSE [t EXCEPT !.children[Head(p)] = Rename(t.children[Head(p)], Tail(p), n)]

\* The parent-child swapping loop of set_outgroup: node lies on the path
\* from the old root to the outgroup, q is the rest of that path, and up is
\* what becomes node's last child (its former parent, already turned over,
\* or the down-branch connector).  The last node of the path loses the
\* outgroup.
RECURSIVE SwapParents(_, _, _)
SwapParents(node, q, up) ==
    LET turned == Node(node.name, RemoveAt(node.children, Head(q)) \o <<up>>)
    IN  IF Len(q) = 1 THEN turned
        ELSE SwapParents(node.children[Head(q)], Tail(q), turned)

\* t.set_outgroup(node at path p), p not the root.  The root keeps two
\* children: the outgroup first, then the rest of the tree.  The root's
\* other children are grouped under a new unnamed node unless there is
\* exactly one of them.
SetOutgroup(t, p) ==
    LET rest      == RemoveAt(t.children, Head(p))
        connector == IF Len(rest) # 1 THEN Node(DEFAULT_NAME, rest) ELSE rest[1]
        outgroup  == Subtree(t, p)
        outgroup2 == IF Len(p) = 1 THEN connector
                     ELSE SwapParents(t.children[Head(p)], Tail(p), connector)
    IN  Node(t.name, <<outgroup, outgroup2>>)

\* set_outgroup raises TreeError when the outgroup is the tree itself.
CanSetOutgroup(t, p) == p # <<>>

\* ------------------------------------------------- the clade search

\* Lines 82-86: the reference names other than ts, in list order; the
\* script takes the first one, and keeps None when there is none.
OtherRefSeqNames(refs, ts) == SelectSeq(refs, LAMBDA i : i # ts)

\* Lines 89-93: the nodes named n in traversal order; the script takes the
\* first one.
NodesNamed(t, n) == SelectSeq(Traverse(t), LAMBDA p : Subtree(t, p).name = n)

\* Lines 102-108: the inner break leaves only the inner loop, so the node
\* kept is the last node of the traversal one of whose leaves has the name.
NodesWithLeaf(t, n) ==
    SelectSeq(Traverse(t), LAMBDA p : n \in Range(LeafNames(Subtree(t, p))))

\* Lines 116-128: the nodes that contain ts and no other reference name.
NodesOfInterest(t, ts, refs) ==
    SelectSeq(Traverse(t), LAMBDA p :
        LET node == Subtree(t, p)
        IN  /\ SearchNodes(node, ts)
            /\ \A k \in DOMAIN refs : refs[k] # ts => ~SearchNodes(node, refs[k]))

\* The sort of lines 131-132 without reverse=True: the first of the nodes
\* with the fewest leaves.
NodeWFewestLeaves(t, nodes) ==
    LET n_leaves == [i \in DOMAIN nodes |-> Len(LeafNames(Subtree(t, nodes[i])))]
        best == CHOOSE i \in DOMAIN nodes :
                    /\ \A j \in DOMAIN nodes : n_leaves[j] >= n_leaves[i]
                    /\ \A j \in 1..(i - 1) : n_leaves[j] > n_leaves[i]
    IN  nodes[best]

\* Lines 131-132: sorted(..., key=number of leaves, reverse=True)[0].  The
\* sort is stable, so among the nodes with the most leaves the first of the
\* list comes first.
NodeWMostLeaves(t, nodes) ==
    LET n_leaves == [i \in DOMAIN nodes |-> Len(LeafNames(Subtree(t, nodes[i])))]
        best == CHOOSE i \in DOMAIN nodes :
                    /\ \A j \in DOMAIN nodes : n_leaves[j] <= n_leaves[i]
                    /\ \A j \in 1..(i - 1) : n_leaves[j] < n_leaves[i]
    IN  nodes[best]

\* Lines 74-109 without the rooting of line 97: the first reference is
\* searched on the tree as it was read.
RootedOnlyOnFirst(t, refs, num, first) ==
    IF num = 1 THEN
        LET others == OtherRefSeqNames(refs, refs[1])
            found  == IF others = <<>> THEN <<>> ELSE NodesNamed(t, Head(others))
        IN  IF found = <<>> THEN [error |-> "AssertionError", tree |-> t]
            ELSE [error |-> "none", tree |-> t]
    ELSE IF num = 2 THEN
        LET found == NodesWithLeaf(t, first)
        IN  IF found = <<>> \/ ~CanSetOutgroup(t, found[Len(found)])
            THEN [error |-> "TreeError", tree |-> t]
            ELSE [error |-> "none", tree |-> SetOutgroup(t, found[Len(found)])]
    ELSE [error |-> "none", tree |-> t]

\* Lines 74-109: the tree the search of reference number num runs on.  The
\* first pass roots the tree on the first other reference (and fails the
\* assertion of line 94 when no node has that name), the second on the node
\* found for the first reference; set_outgroup fails on the root and on None.
Rooted(t, refs, num, first) ==
    IF num = 1 THEN
        LET others == OtherRefSeqNames(refs, refs[1])
            found  == IF others = <<>> THEN <<>> ELSE NodesNamed(t, Head(others))
        IN  IF found = <<>> THEN [error |-> "AssertionError", tree |-> t]
            ELSE IF ~CanSetOutgroup(t, Head(found)) THEN [error |-> "TreeError", tree |-> t]
            ELSE [error |-> "none", tree |-> SetOutgroup(t, Head(found))]
    ELSE IF num = 2 THEN
        LET found == NodesWithLeaf(t, first)
        IN  IF found = <<>> \/ ~CanSetOutgroup(t, found[Len(found)])
            THEN [error |-> "TreeError", tree |-> t]
            ELSE [error |-> "none", tree |-> SetOutgroup(t, found[Len(found)])]
    ELSE [error |-> "none", tree |-> t]

\* Lines 138-139 after line 133: the names read off the winning node of the
\* working copy, which has been renamed by then.
RecordedNames(t, p) == LeafNames(Subtree(Rename(t, p, SentinelName), p))

\* seq_names_by_ref_seq_name[k] = v
DictSet(d, k, v) == [x \in (DOMAIN d) \cup {k} |-> IF x = k THEN v ELSE d[x]]

EmptyDict == [x \in {} |-> <<>>]


\* ------------------------------------------------------ the output files

\* Lines 165-166: ref_seq_name.replace(' ', '_').replace('/', '_').
ReplaceChar(s, old, new) == [i \in DOMAIN s |-> IF s[i] = old THEN new ELSE s[i]]

\* Lines 164-168: the file name inside the output directory.
OutputFileName(ref_seq_name) ==
    ReplaceChar(ReplaceChar(ref_seq_name, " ", "_"), "/", "_") \o CladeSuffix

\* Lines 160-161: [x for x in all_seqs if x.id in seq_names_by_ref_seq_name[r]]
CladeSpecificSeqObjs(seqs, names) == SelectSeq(seqs, LAMBDA x : x.id \in Range(names))

\* Lines 153-155: shutil.rmtree when the directory exists, then os.mkdir.
FreshDir(d) ==
    LET removed == IF d.exists THEN [exists |-> FALSE, files |-> EmptyDict] ELSE d
    IN  [removed EXCEPT !.exists = TRUE]

\* Lines 171-173: open(path, 'w') creates or truncates the file.
WriteFile(d, fname, records) == [d EXCEPT !.files = DictSet(d.files, fname, records)]

\* ------------------------------------------------------------- inputs

\* The input trees (line 32): the trees whose leaves, from left to right,
\* carry the names of the sequence s, every internal node unnamed and with at
\* least two children, so that leaf names are unique.  The reference lists
\* range over all orders, which covers the other placements of the names.
\* Forests(s) are the sequences of such trees whose leaves together spell s.
RECURSIVE Trees(_), Forests(_), SplitForests(_)
Trees(s) ==
    IF Len(s) = 1 THEN {Leaf(s[1])}
    ELSE {Node(DEFAULT_NAME, ch) : ch \in SplitForests(s)}

\* The forests of at least two trees.
SplitForests(s) ==
    UNION {{<<c>> \o f : c \in Trees(SubSeq(s, 1, k)),
                         f \in Forests(SubSeq(s, k + 1, Len(s)))} :
           k \in 1..(Len(s) - 1)}

Forests(s) == {<<c>> : c \in Trees(s)} \cup SplitForests(s)

\* The leaf names of the enumerated trees, by position, and a name that is
\* no leaf of any of them.
PlainNames == << <<"A">>, <<"B">>, <<"C">>, <<"D">>, <<"E">>, <<"F">>, <<"G">> >>

AbsentName == <<"Z">>

\* Names the file-name substitution maps to one file name, and the sentinel.
OddNames == << <<"A", " ", "B">>, <<"A", "/", "B">>, <<"A", "_", "B">>, <<"X">>,
               <<"C">>, <<"D">>, <<"E">> >>

EnumeratedTrees(names) ==
    UNION {Trees(SubSeq(names, 1, n)) : n \in MinRefs..MaxLeaves}

\* The tree of the scenario ((A,B),(C,(D,E)));
ScenarioTree ==
    Node(DEFAULT_NAME,
         << Node(DEFAULT_NAME, <<Leaf(<<"A">>), Leaf(<<"B">>)>>),
            Node(DEFAULT_NAME, <<Leaf(<<"C">>),
                                 Node(DEFAULT_NAME, <<Leaf(<<"D">>), Leaf(<<"E">>)>>)>>) >>)

\* The reference lists read for a tree (lines 42-44, each line already
\* stripped and cut at its first comma), each name a leaf or the absent name: the lists of MinRefs - 1 .. MinRefs + ExtraRefs distinct
\* names, and the lists of MinRefs names some of which repeat.
RefLists(t) ==
    LET names == Range(LeafNames(t)) \cup {AbsentName}
    IN  UNION {{l \in [1..k -> names] : IsInjective(l)} :
               k \in (MinRefs - 1)..(MinRefs + ExtraRefs)}
        \cup {l \in [1..MinRefs -> Range(LeafNames(t))] : ~IsInjective(l)}

Rec(n, payload) == [id |-> n, seq |-> payload]

\* The FASTA collections read: the leaves in the reverse of the tree's
\* order, with a record that is no leaf and one whose identifier is the
\* sentinel; or the sentinel first and one leaf's identifier a second time.
Fastas(t) ==
    LET ln  == LeafNames(t)
        rev == [i \in DOMAIN ln |-> Rec(ln[Len(ln) + 1 - i], "s")]
    IN  { rev \o <<Rec(AbsentName, "s"), Rec(SentinelName, "x")>>,
          <<Rec(SentinelName, "x"), Rec(ln[1], "s1")>> \o rev }

\* The output directory before the run: absent, or holding an old file.
OldFile == <<"o", "l", "d", ".", "f", "a", "a">>

Dirs == { [exists |-> FALSE, files |-> EmptyDict],
          [exists |-> TRUE, files |-> DictSet(EmptyDict, OldFile, <<Rec(<<"o">>, "s")>>)] }

\* ------------------------------------------------------ the program

\* Lines 32-48 and 61-70: the state once the tree and the list are read.
InitWith(trees) ==
    /\ t1 \in trees
    /\ t2 = t1
    /\ ref_seq_list \in RefLists(t1)
    /\ dir_before \in Dirs
    /\ out_dir = dir_before
    /\ pc = "check_count"
    /\ error = "none"
    /\ ts_num = 0
    /\ first_ref_seq_node_name = None
    /\ t3 = t2
    /\ node_w_most_leaves = <<>>
    /\ seq_names_by_ref_seq_name = EmptyDict
    /\ all_seqs = <<>>
    /\ write_idx = 0

Init == InitWith(EnumeratedTrees(PlainNames))

InitOddNames == InitWith(EnumeratedTrees(OddNames))

InitScenario == InitWith({ScenarioTree})

Fail(kind) ==
    /\ pc' = "failed"
    /\ error' = kind

\* Lines 50-52.
CheckRefCount ==
    /\ pc = "check_count"
    /\ IF Len(ref_seq_list) >= MinRefs
       THEN pc' = "check_leaves" /\ error' = error
       ELSE Fail("AssertionError")
    /\ UNCHANGED <<t1, t2, ref_seq_list, ts_num, first_ref_seq_node_name, t3,
                   node_w_most_leaves, seq_names_by_ref_seq_name, all_seqs,
                   out_dir, dir_before, write_idx>>

\* Lines 54-59 with the output directory made (lines 152-155) before them.
CheckRefsInTreeInFreshDir ==
    /\ pc = "check_leaves"
    /\ out_dir' = FreshDir(out_dir)
    /\ IF \A k \in DOMAIN ref_seq_list : ref_seq_list[k] \in Range(LeafNames(t2))
       THEN pc' = "extract" /\ error' = error
       ELSE Fail("AssertionError")
    /\ UNCHANGED <<t1, t2, ref_seq_list, ts_num, first_ref_seq_node_name, t3,
                   node_w_most_leaves, seq_names_by_ref_seq_name, all_seqs,
                   dir_before, write_idx>>

\* Lines 54-59.
CheckRefsInTree ==
    /\ pc = "check_leaves"
    /\ IF \A k \in DOMAIN ref_seq_list : ref_seq_list[k] \in Range(LeafNames(t2))
       THEN pc' = "extract" /\ error' = error
       ELSE Fail("AssertionError")
    /\ UNCHANGED <<t1, t2, ref_seq_list, ts_num, first_ref_seq_node_name, t3,
                   node_w_most_leaves, seq_names_by_ref_seq_name, all_seqs,
                   out_dir, dir_before, write_idx>>

\* Lines 111-139 on the rooted tree: the record of what one pass leaves
\* behind, or of the error that ends it (sorted(...)[0] of an empty list).
SearchClade(tree, ts, refs) ==
    LET nodes == NodesOfInterest(tree, ts, refs)
    IN  IF nodes = <<>>
        THEN [error |-> "IndexError", t3 |-> tree, node |-> <<>>, names |-> <<>>]
        ELSE LET win == NodeWMostLeaves(tree, nodes)
             IN  [error |-> "none", t3 |-> Rename(tree, win, SentinelName),
                  node |-> win, names |-> RecordedNames(tree, win)]

\* Lines 71-139 from pass num to the end of the list refs, on tree t and
\* with the clade map d: the map the loop ends with, or the map as it is
\* when a pass fails.
RECURSIVE RunLoop(_, _, _, _)
RunLoop(t, refs, num, d) ==
    IF num > Len(refs) THEN d
    ELSE LET rooted == Rooted(t, refs, num, refs[1])
         IN  IF rooted.error # "none" THEN d
             ELSE LET found == SearchClade(rooted.tree, refs[num], refs)
                  IN  IF found.error # "none" THEN d
                      ELSE RunLoop(rooted.tree, refs, num + 1,
                                   DictSet(d, refs[num], found.names))

\* Lines 71-139: one pass of the loop over ref_seq_list.
ExtractClade ==
    /\ pc = "extract"
    /\ ts_num < Len(ref_seq_list)
    /\ LET num    == ts_num + 1
           ts     == ref_seq_list[num]
           first  == IF num = 1 THEN ts ELSE first_ref_seq_node_name
       IN  /\ ts_num' = num
           /\ first_ref_seq_node_name' = first
           /\ \E rooted \in {Rooted(t2, ref_seq_list, num, first)} :
                IF rooted.error # "none"
                THEN /\ Fail(rooted.error)
                     /\ UNCHANGED <<t2, t3, node_w_most_leaves, seq_names_by_ref_seq_name>>
                ELSE \E found \in {SearchClade(rooted.tree, ts, ref_seq_list)} :
                       /\ t2' = rooted.tree
                       /\ t3' = found.t3
                       /\ IF found.error # "none"
                          THEN /\ Fail(found.error)
                               /\ UNCHANGED <<node_w_most_leaves, seq_names_by_ref_seq_name>>
                          ELSE /\ node_w_most_leaves' = found.node
                               /\ seq_names_by_ref_seq_name' =
                                    DictSet(seq_names_by_ref_seq_name, ts, found.names)
                               /\ pc' = IF num = Len(ref_seq_list)
                                        THEN "parse_fasta" ELSE "extract"
                               /\ error' = error
    /\ UNCHANGED <<t1, ref_seq_list, all_seqs, out_dir, dir_before, write_idx>>

\* Line 150.
ParseFasta ==
    /\ pc = "parse_fasta"
    /\ all_seqs' \in Fastas(t1)
    /\ pc' = "make_dir"
    /\ UNCHANGED <<error, t1, t2, ref_seq_list, ts_num, first_ref_seq_node_name, t3,
                   node_w_most_leaves, seq_names_by_ref_seq_name,
                   out_dir, dir_before, write_idx>>

\* Lines 152-155.
MakeOutputDir ==
    /\ pc = "make_dir"
    /\ out_dir' = FreshDir(out_dir)
    /\ pc' = "write"
    /\ UNCHANGED <<error, t1, t2, ref_seq_list, ts_num, first_ref_seq_node_name, t3,
                   node_w_most_leaves, seq_names_by_ref_seq_name,
                   all_seqs, dir_before, write_idx>>

\* Lines 158-173: one pass of the loop that writes the files.
WriteCladeFile ==
    /\ pc = "write"
    /\ write_idx < Len(ref_seq_list)
    /\ LET ref_seq_name == ref_seq_list[write_idx + 1]
       IN  out_dir' = WriteFile(out_dir, OutputFileName(ref_seq_name),
                         CladeSpecificSeqObjs(all_seqs,
                                              seq_names_by_ref_seq_name[ref_seq_name]))
    /\ write_idx' = write_idx + 1
    /\ pc' = IF write_idx + 1 = Len(ref_seq_list) THEN "done" ELSE "write"
    /\ UNCHANGED <<error, t1, t2, ref_seq_list, ts_num, first_ref_seq_node_name, t3,
                   node_w_most_leaves, seq_names_by_ref_seq_name,
                   all_seqs, dir_before>>

Next ==
    \/ CheckRefCount
    \/ CheckRefsInTree
    \/ ExtractClade
    \/ ParseFasta
    \/ MakeOutputDir
    \/ WriteCladeFile

Spec == Init /\ [][Next]_vars

SpecOddNames == InitOddNames /\ [][Next]_vars

SpecScenario == InitScenario /\ [][Next]_vars

\* ------------------------------------------------------ the claims

\* A valid reference list: at least MinRefs pairwise distinct names, all of
\* them leaves of the tree.
ValidRefs ==
    /\ Len(ref_seq_list) >= MinRefs
    /\ IsInjective(ref_seq_list)
    /\ Range(ref_seq_list) \subseteq Range(LeafNames(t1))

\* The loop over the references has ended without an error.
LoopDone == pc \in {"parse_fasta", "make_dir", "write", "done"}

\* A pass of the loop has just ended without an error.
PassDone == pc \in {"extract", "parse_fasta"} /\ ts_num >= 1

\* The reference of the pass that has just ended.
LastRef == ref_seq_list[ts_num]

\* The leaf-name set recorded for reference r.
Clade(r) == Range(seq_names_by_ref_seq_name[r])

\* The leaf names below the node of t at path p, as a set.
LeafSet(t, p) == Range(LeafNames(Subtree(t, p)))

\* C1: with a valid reference list the extraction does not fail, and once
\* the loop has ended the clade map has exactly one entry per reference, the
\* entry of each reference containing the reference's own name.
C1_EveryCladeHoldsItsReference ==
    ValidRefs =>
        /\ pc # "failed"
        /\ LoopDone =>
              /\ DOMAIN seq_names_by_ref_seq_name = Range(ref_seq_list)
              /\ \A r \in Range(ref_seq_list) : r \in Clade(r)

\* C2: with a valid reference list, the clade recorded for the reference of
\* the pass that has just ended holds no other reference, and holds the leaf
\* set of every node of the rooted tree whose leaves include the reference
\* and none of the others.
C2_CladeIsLargestPureGroup ==
    (ValidRefs /\ PassDone) =>
        /\ Clade(LastRef) \cap (Range(ref_seq_list) \ {LastRef}) = {}
        /\ \A p \in Range(Traverse(t2)) :
              (/\ LastRef \in LeafSet(t2, p)
               /\ LeafSet(t2, p) \cap (Range(ref_seq_list) \ {LastRef}) = {})
              => LeafSet(t2, p) \subseteq Clade(LastRef)

\* C3: with a valid reference list, the leaf-name sets recorded for two
\* different references share no name.
C3_CladesDisjoint ==
    (ValidRefs /\ LoopDone) =>
        \A r, s \in Range(ref_seq_list) : r # s => Clade(r) \cap Clade(s) = {}

\* The records of the file written for reference r.
OutputOf(r) == out_dir.files[OutputFileName(r)]

\* C4: at the end of a run with a valid reference list, the file of every
\* reference holds, in input order, exactly the input records whose
\* identifier is in the reference's clade; no such record is in the file of
\* another reference; a record in no clade is in no file.
C4_PartitionRoundTrip ==
    (ValidRefs /\ pc = "done") =>
        /\ \A r \in Range(ref_seq_list) :
              /\ OutputFileName(r) \in DOMAIN out_dir.files
              /\ OutputOf(r) = SelectSeq(all_seqs, LAMBDA x : x.id \in Clade(r))
              /\ \A x \in Range(all_seqs) :
                    x.id \in Clade(r) =>
                        \A s \in Range(ref_seq_list) \ {r} : x \notin Range(OutputOf(s))
        /\ \A x \in Range(all_seqs) :
              (\A r \in Range(ref_seq_list) : x.id \notin Clade(r)) =>
                  \A f \in DOMAIN out_dir.files : x \notin Range(out_dir.files[f])

\* C5: a run whose list has fewer than MinRefs lines or names a name that is
\* no leaf never gets past the two checks, and whenever a run has failed, in
\* the checks or in the extraction, the output directory is as it was before
\* the run.
C5_FailureLeavesOutputDirectory ==
    /\ (\/ Len(ref_seq_list) < MinRefs
        \/ ~(Range(ref_seq_list) \subseteq Range(LeafNames(t1))))
       => /\ pc \in {"check_count", "check_leaves", "failed"}
          /\ out_dir = dir_before
    /\ pc = "failed" => out_dir = dir_before

\* C5's case: a run that failed during the extraction, with an output
\* directory that held a file.
C5_Witness ==
    /\ pc = "failed"
    /\ ts_num >= 1
    /\ dir_before.exists
    /\ OldFile \in DOMAIN out_dir.files

\* C6: a list with fewer than MinRefs distinct names is rejected: no clade
\* is recorded for it and its loop never ends normally.
C6_FewDistinctRefsRejected ==
    Cardinality(Range(ref_seq_list)) < MinRefs =>
        /\ seq_names_by_ref_seq_name = EmptyDict
        /\ ~LoopDone

\* C7: at the end of a run with a valid reference list the output directory
\* holds one file per reference name and no other file, each file holding
\* the records of its reference's clade.
C7_OneFilePerReference ==
    (ValidRefs /\ pc = "done") =>
        /\ out_dir.exists
        /\ DOMAIN out_dir.files = {OutputFileName(r) : r \in Range(ref_seq_list)}
        /\ Cardinality(DOMAIN out_dir.files) = Len(ref_seq_list)
        /\ OldFile \notin DOMAIN out_dir.files
        /\ \A r \in Range(ref_seq_list) :
              OutputOf(r) = CladeSpecificSeqObjs(all_seqs, seq_names_by_ref_seq_name[r])

ScenarioRefs == << <<"A">>, <<"C">>, <<"D">> >>

ScenarioRun == t1 = ScenarioTree /\ ref_seq_list = ScenarioRefs /\ LoopDone

C9_RenameIsDiagnosticOnly ==
    PassDone =>
        /\ t3 = Rename(t2, node_w_most_leaves, SentinelName)
        /\ Range(LeafNames(t2)) = Range(LeafNames(t1))
        /\ seq_names_by_ref_seq_name[LastRef] = LeafNames(Subtree(t2, node_w_most_leaves))
        /\ SentinelName \in Clade(LastRef) => SentinelName \in Range(LeafNames(t1))

\* The reference names in the order of the input tree's leaves.
CanonicalRefs ==
    SelectSeq(LeafNames(t1), LAMBDA n : n \in Range(ref_seq_list))

\* C10: once the loop has ended on a valid reference list, the clade of the
\* first reference is the one found on the input tree rooted on any other
\* reference, and the clade of every reference is the one the loop records
\* when it is given the same names in the order of the tree's leaves.  The
\* runs start from every order of every list, so that all orders of a list
\* agree with one of them and hence with each other.
C10_OrderIndependent ==
    (ValidRefs /\ pc = "parse_fasta") =>
        /\ \A o \in Range(ref_seq_list) \ {ref_seq_list[1]} :
              Range(SearchClade(SetOutgroup(t1, Head(NodesNamed(t1, o))),
                                ref_seq_list[1], ref_seq_list).names)
                = Clade(ref_seq_list[1])
        /\ LET other == RunLoop(t1, CanonicalRefs, 1, EmptyDict)
           IN  /\ DOMAIN other = DOMAIN seq_names_by_ref_seq_name
               /\ \A r \in Range(ref_seq_list) : Range(other[r]) = Clade(r)

\* C10's case: a list that is not in the order of the tree's leaves, whose
\* first reference has a clade of several leaves.
C10_Witness ==
    /\ ValidRefs
    /\ pc = "parse_fasta"
    /\ ref_seq_list # CanonicalRefs
    /\ Cardinality(Clade(ref_seq_list[1])) >= 2
    /\ ref_seq_list[1] \in Clade(ref_seq_list[1])

=============================================================================
